---- MODULE Spec2Model ----
(***************************************************************************)
(* Tomeus: upload an image or PDF, have an AI boundary translate it, show   *)
(* the result as an overlay and export it burnt into a PNG.                 *)
(*                                                                         *)
(* Encoding conventions                                                    *)
(*  - a JavaScript string is a sequence of one-character strings;          *)
(*  - a JavaScript number is a record [nan, v]; NaN is [nan |-> TRUE];     *)
(*  - canvas lengths are held in hundredths of a pixel ("centipixels"), so *)
(*    that (percentage / 100) * pixels is exact in integers;               *)
(*  - a JSON scalar is a record [t, n, s] with t the JSON type ("absent"   *)
(*    for a key that is not in its object).                                *)
(***************************************************************************)
EXTENDS Integers, Sequences, FiniteSets, TLC

VARIABLES
    \* ---- FileUpload component state (src/components/FileUpload.tsx)
    fileName,
    \* ---- App component state (src/unnamed/part_003)
    file, fileDataURL, translationResult, isLoading, isDownloading, error,
    \* ---- asynchronous work in flight
    readers,        \* FileReader.readAsDataURL calls not yet completed
    requests,       \* translateImageContent calls not yet settled
    exports,        \* Image loads started by handleDownload, not yet finished
    \* ---- what the user and the environment observe
    alerts,         \* number of alert() notices shown
    downloads,      \* the downloads triggered by link.click()
    lastEvent,      \* the handler that ran last
    lastResp,       \* the AI outcome the last settled request received
    lastFile,       \* the file last handed to handleFile
    resultFile,     \* history: the file selected when the request that
                    \* produced translationResult was issued
    \* ---- the text fitting engine run on its own
    fitText, fitBox, fitPc, fitOut,
    \* ---- the export composer run on its own
    expBlocks, expImage, expPc, expOut,
    \* ---- the response validation run on its own
    valIn, valPc, valOut,
    \* ---- the percentage-to-pixel conversion run on its own
    geoBox, geoRef, geoPc, geoOut,
    \* ---- TranslationDisplay (src/unnamed/part_002): the blocks shown, the
    \* popover state and the pointer event handled last
    popBlocks, hoveredBlock, popEvent,
    \* ---- the greedy wrap run on its own
    wrapText, wrapMaxWidth, wrapFont, wrapPc, wrapOut

appVars == <<fileName, file, fileDataURL, translationResult, isLoading,
             isDownloading, error, readers, requests, exports, alerts,
             downloads, lastEvent, lastResp, lastFile, resultFile>>
fitVars == <<fitText, fitBox, fitPc, fitOut>>
expVars == <<expBlocks, expImage, expPc, expOut>>
valVars == <<valIn, valPc, valOut>>
geoVars == <<geoBox, geoRef, geoPc, geoOut>>
popVars == <<popBlocks, hoveredBlock, popEvent>>
wrapVars == <<wrapText, wrapMaxWidth, wrapFont, wrapPc, wrapOut>>
auxVars == <<geoVars, popVars, wrapVars>>
vars == <<appVars, fitVars, expVars, valVars, auxVars>>

-----------------------------------------------------------------------------
(* Bounds of the model *)

MaxTextLen == 4        \* characters of a text handed to the fitting engine
MaxWidth == 16         \* box widths 1..MaxWidth pixels
MaxHeight == 30        \* box heights 1..MaxHeight pixels
MaxBlocks == 2         \* blocks of a response
MaxReads == 1          \* FileReader reads in flight at once
MaxAlerts == 1         \* notices counted
MaxDownloads == 1      \* downloads recorded
MaxPct == 11           \* box percentages -10, 0, 10 .. 10 * MaxPct
MaxWrapLen == 5        \* characters of a text handed to the wrap alone
MaxWrapWidth == 26     \* max widths -1..MaxWrapWidth pixels of the wrap alone

-----------------------------------------------------------------------------
(* JavaScript values *)

Num(n) == [nan |-> FALSE, v |-> n]
NaN == [nan |-> TRUE, v |-> 0]

\* a < b on JavaScript numbers: false as soon as one side is NaN
JsLess(a, b) == ~a.nan /\ ~b.nan /\ a.v < b.v
\* a <= b
JsLeq(a, b) == ~a.nan /\ ~b.nan /\ a.v <= b.v
\* a >= b
JsGeq(a, b) == ~a.nan /\ ~b.nan /\ a.v >= b.v
JsAdd(a, b) == IF a.nan \/ b.nan THEN NaN ELSE Num(a.v + b.v)
JsSub(a, b) == IF a.nan \/ b.nan THEN NaN ELSE Num(a.v - b.v)

Str(s) == [t |-> "str", n |-> 0, s |-> s]
NumVal(n) == [t |-> "num", n |-> n, s |-> <<>>]
Absent == [t |-> "absent", n |-> 0, s |-> <<>>]
Null == [t |-> "null", n |-> 0, s |-> <<>>]

\* !value for a JSON scalar: null, undefined, 0 and "" are falsy
Falsy(val) ==
    \/ val.t \in {"absent", "null"}
    \/ val.t = "num" /\ val.n = 0
    \/ val.t = "str" /\ val.s = <<>>

-----------------------------------------------------------------------------
(* Text fitting engine: getWrappedLines and drawTextAndFit *)

\* String.prototype.split(' ') on a non-empty or empty string
RECURSIVE SplitFrom(_, _, _)
SplitFrom(s, i, cur) ==
    IF i > Len(s) THEN <<cur>>
    ELSE IF s[i] = " " THEN <<cur>> \o SplitFrom(s, i + 1, <<>>)
    ELSE SplitFrom(s, i + 1, Append(cur, s[i]))

Split(s) == SplitFrom(s, 1, <<>>)

\* ctx.measureText(line).width in centipixels with the font set to
\* `${fontSize}px sans-serif`: every character advances 0.6 em
MeasureText(line, fontSize) == Num(60 * fontSize * Len(line))

\* the for loop with the extension accepted at width <= maxWidth
RECURSIVE WrapLoopUpTo(_, _, _, _, _, _)
WrapLoopUpTo(words, i, currentLine, lines, maxWidth, fontSize) ==
    IF i > Len(words)
    THEN IF currentLine # <<>> THEN Append(lines, currentLine) ELSE lines
    ELSE LET word == words[i]
             testLine == IF currentLine = <<>> THEN word
                         ELSE currentLine \o <<" ">> \o word
             width == MeasureText(testLine, fontSize)
         IN IF JsLeq(width, maxWidth) \/ currentLine = <<>>
            THEN WrapLoopUpTo(words, i + 1, testLine, lines, maxWidth, fontSize)
            ELSE WrapLoopUpTo(words, i + 1, word, Append(lines, currentLine),
                              maxWidth, fontSize)

\* the for loop of getWrappedLines from word i on
RECURSIVE WrapLoop(_, _, _, _, _, _)
WrapLoop(words, i, currentLine, lines, maxWidth, fontSize) ==
    IF i > Len(words)
    THEN IF currentLine # <<>> THEN Append(lines, currentLine) ELSE lines
    ELSE LET word == words[i]
             testLine == IF currentLine = <<>> THEN word
                         ELSE currentLine \o <<" ">> \o word
             width == MeasureText(testLine, fontSize)
         IN IF JsLess(width, maxWidth) \/ currentLine = <<>>
            THEN WrapLoop(words, i + 1, testLine, lines, maxWidth, fontSize)
            ELSE WrapLoop(words, i + 1, word, Append(lines, currentLine),
                          maxWidth, fontSize)

\* getWrappedLines(ctx, text, maxWidth) with ctx.font at fontSize.
\* text is a JSON scalar: a value that is not a string has no split method.
getWrappedLines(text, maxWidth, fontSize) ==
    IF Falsy(text) THEN [threw |-> FALSE, lines |-> <<>>]
    ELSE IF text.t # "str" THEN [threw |-> TRUE, lines |-> <<>>]
    ELSE [threw |-> FALSE,
          lines |-> WrapLoop(Split(text.s), 1, <<>>, <<>>, maxWidth, fontSize)]

\* one canvas call: op names the method, line the text, a..d its numbers
Op(op, line, a, b, c, d) ==
    [op |-> op, line |-> line, a |-> a, b |-> b, c |-> c, d |-> d]

\* the fillText calls of one layout; a is twice startX (startX has a /2),
\* b is the vertical position, c the font size
FillTexts(lines, x, y, width, fontSize) ==
    [i \in 1..Len(lines) |->
        LET lineWidth == MeasureText(lines[i], fontSize)
            startX2 == JsAdd(JsAdd(x, x), JsSub(width, lineWidth))
        IN Op("fillText", lines[i], startX2,
              JsAdd(y, Num((i - 1) * 120 * fontSize)), Num(fontSize), Num(0))]

\* result of a drawTextAndFit call
FitResult(font, clipped, threw, ops) ==
    [font |-> font, clipped |-> clipped, threw |-> threw, ops |-> ops]

\* the body of the fallback branch with finalFontSize given
FallbackAt(text, x, y, width, height, finalFontSize) ==
    LET w == getWrappedLines(text, JsSub(width, Num(400)), finalFontSize)
    IN IF w.threw THEN FitResult(finalFontSize, FALSE, TRUE, <<>>)
       ELSE FitResult(finalFontSize, TRUE, FALSE,
                <<Op("save", <<>>, Num(0), Num(0), Num(0), Num(0)),
                  Op("clip", <<>>, x, y, width, height)>>
                \o FillTexts(w.lines, x, y, width, finalFontSize)
                \o <<Op("restore", <<>>, Num(0), Num(0), Num(0), Num(0))>>)

\* Fallback drawing at the starting size Math.floor(height / 2), not at 8
FallbackAtStartSize(text, x, y, width, height) ==
    FallbackAt(text, x, y, width, height, height.v \div 200)

\* the fallback branch of drawTextAndFit (if fontSize < 8)
FitFallbackFont == 8
Fallback(text, x, y, width, height) ==
    FallbackAt(text, x, y, width, height, FitFallbackFont)

\* Fits with the comparison written textHeight < height
FitsStrictly(nLines, fontSize, height) ==
    JsLess(Num(120 * nLines * fontSize), height)

\* textHeight <= height, with textHeight = lines.length * fontSize * 1.2
Fits(nLines, fontSize, height) == JsLeq(Num(120 * nLines * fontSize), height)

\* the while loop of drawTextAndFit entered with fontSize, then the fallback
RECURSIVE FitLoop(_, _, _, _, _, _)
FitLoop(text, x, y, width, height, fontSize) ==
    IF fontSize.nan THEN FitResult(0, FALSE, FALSE, <<>>)
    ELSE IF fontSize.v >= 8
    THEN LET w == getWrappedLines(text, JsSub(width, Num(400)), fontSize.v)
         IN IF w.threw THEN FitResult(fontSize.v, FALSE, TRUE, <<>>)
            ELSE IF Fits(Len(w.lines), fontSize.v, height)
            THEN FitResult(fontSize.v, FALSE, FALSE,
                           FillTexts(w.lines, x, y, width, fontSize.v))
            ELSE FitLoop(text, x, y, width, height, Num(fontSize.v - 1))
    ELSE Fallback(text, x, y, width, height)

\* Math.floor(height / 2) for a height in centipixels, in pixels
InitialFontSize(height) == IF height.nan THEN NaN ELSE Num(height.v \div 200)

drawTextAndFit(text, x, y, width, height) ==
    FitLoop(text, x, y, width, height, InitialFontSize(height))

-----------------------------------------------------------------------------
(* The fitting engine on its own: a text and a box, then the call *)

Chars == {"a", " "}
RECURSIVE StringsUpTo(_)
StringsUpTo(n) ==
    IF n = 0 THEN {<<>>}
    ELSE LET shorter == StringsUpTo(n - 1)
         IN shorter \cup {Append(s, c) : s \in {t \in shorter : Len(t) = n - 1},
                                          c \in Chars}

Origins == {<<0, 0>>, <<300, 700>>}

FitInit ==
    /\ fitText \in StringsUpTo(MaxTextLen)
    /\ fitBox \in {[x |-> o[1], y |-> o[2], width |-> 100 * w, height |-> 100 * h] :
                      o \in Origins, w \in 1..MaxWidth, h \in 1..MaxHeight}
    /\ fitPc = "ready"
    /\ fitOut = FitResult(0, FALSE, FALSE, <<>>)

FitDraw ==
    /\ fitPc = "ready"
    /\ fitOut' = drawTextAndFit(Str(fitText), Num(fitBox.x), Num(fitBox.y),
                                Num(fitBox.width), Num(fitBox.height))
    /\ fitPc' = "drawn"
    /\ UNCHANGED <<fitText, fitBox>>

-----------------------------------------------------------------------------
(* AI boundary: the parsed response and its validation (geminiService.ts) *)

\* a boundingBox value: t is "absent", "null", "num" (any non-object) or "obj"
Box(t, x, y, width, height) ==
    [t |-> t, x |-> x, y |-> y, width |-> width, height |-> height]
BoxObj(x, y, width, height) == Box("obj", x, y, width, height)
BoxNot(t) == Box(t, Absent, Absent, Absent, Absent)

\* an element of translationBlocks: t is "null", "num" (any non-object) or "obj"
Item(t, originalText, translatedText, boundingBox) ==
    [t |-> t, originalText |-> originalText, translatedText |-> translatedText,
     boundingBox |-> boundingBox]
ItemNot(t) == Item(t, Absent, Absent, BoxNot("absent"))

\* the value JSON.parse returned: t is "null", "num", "str", "arr" or "obj";
\* blocks is the translationBlocks member ([t, items], t "arr" for an array)
Parsed(t, blocks, formatted) ==
    [t |-> t, translationBlocks |-> blocks, formattedTranslation |-> formatted]
BlocksArr(items) == [t |-> "arr", items |-> items]
BlocksNot(t) == [t |-> t, items |-> <<>>]
ParsedNot(t) == Parsed(t, BlocksNot("absent"), Absent)

\* what generateContent and JSON.parse gave: kind is "rejectError" (the call
\* rejects with an Error), "rejectOther" (it rejects with a value that is not
\* an Error), "syntaxError" (JSON.parse throws) or "json"
Outcome(kind, parsed) == [kind |-> kind, parsed |-> parsed]

NoResult == [present |-> FALSE, translationBlocks |-> <<>>,
             formattedTranslation |-> <<>>]

\* formattedTranslation.replace(/\\n/g, '\n')
RECURSIVE ReplaceEscapedNewlines(_)
ReplaceEscapedNewlines(s) ==
    IF Len(s) = 0 THEN <<>>
    ELSE IF Len(s) >= 2 /\ s[1] = "\\" /\ s[2] = "n"
    THEN <<"\n">> \o ReplaceEscapedNewlines(SubSeq(s, 3, Len(s)))
    ELSE <<s[1]>> \o ReplaceEscapedNewlines(SubSeq(s, 2, Len(s)))

\* the first if of translateImageContent: TRUE when it throws
StructureRejected(parsedJson) ==
    \/ parsedJson.t \notin {"obj", "arr"}              \* typeof !== 'object', or null
    \/ parsedJson.translationBlocks.t = "absent"       \* !('translationBlocks' in ..)
    \/ parsedJson.translationBlocks.t # "arr"          \* !Array.isArray(..)
    \/ parsedJson.formattedTranslation.t = "absent"    \* !('formattedTranslation' in ..)
    \/ parsedJson.formattedTranslation.t # "str"       \* typeof .. !== 'string'

\* the predicate handed to blocks.every
ItemValid(item) ==
    /\ item.t = "obj"                                  \* typeof 'object', not null
    /\ item.originalText.t # "absent"
    /\ item.translatedText.t # "absent"
    /\ item.boundingBox.t # "absent"
    /\ item.boundingBox.t = "obj"                      \* typeof 'object', not null
    /\ item.boundingBox.x.t # "absent"
    /\ item.boundingBox.y.t # "absent"
    /\ item.boundingBox.width.t # "absent"
    /\ item.boundingBox.height.t # "absent"

isValid(blocks) == \A i \in 1..Len(blocks) : ItemValid(blocks[i])

MsgStructure ==
    "API did not return the expected object structure with 'translationBlocks' and 'formattedTranslation'."
MsgMalformed == "The translated data within 'translationBlocks' is malformed."
MsgPrefix == "Failed to get translation from AI: "
MsgUnknownAI == "An unknown error occurred while communicating with the AI."
MsgNetwork == "fetch failed"
MsgSyntax == "Unexpected token"

Thrown(message) == [ok |-> FALSE, result |-> NoResult, message |-> message]
Returned(result) == [ok |-> TRUE, result |-> result, message |-> ""]

\* translateImageContent from the settling of generateContent on
translateImageContent(outcome) ==
    IF outcome.kind = "rejectError" THEN Thrown(MsgPrefix \o MsgNetwork)
    ELSE IF outcome.kind = "rejectOther" THEN Thrown(MsgUnknownAI)
    ELSE IF outcome.kind = "syntaxError" THEN Thrown(MsgPrefix \o MsgSyntax)
    ELSE LET parsedJson == outcome.parsed
         IN IF StructureRejected(parsedJson) THEN Thrown(MsgPrefix \o MsgStructure)
            ELSE IF ~isValid(parsedJson.translationBlocks.items)
            THEN Thrown(MsgPrefix \o MsgMalformed)
            ELSE Returned([present |-> TRUE,
                           translationBlocks |-> parsedJson.translationBlocks.items,
                           formattedTranslation |->
                               ReplaceEscapedNewlines(parsedJson.formattedTranslation.s)])

-----------------------------------------------------------------------------
(* Files the user can pick *)

TypePng == <<"i", "m", "a", "g", "e", "/", "p", "n", "g">>
TypeImage == <<"i", "m", "a", "g", "e", "/">>
TypePdf == <<"a", "p", "p", "l", "i", "c", "a", "t", "i", "o", "n", "/", "p", "d", "f">>
TypePdfx == TypePdf \o <<"x">>
TypeXImage == <<"x">> \o TypePng
TypeText == <<"t", "e", "x", "t", "/", "p", "l", "a", "i", "n">>

File(id, name, type) == [id |-> id, name |-> name, type |-> type]
NoFile == File(0, <<>>, <<>>)

Files == {
    File(1, <<"a", ".", "a">>, TypePng),
    File(2, <<"a", "a">>, TypeImage),
    File(3, <<"a", ".", "a", ".", "a">>, TypePdf),
    File(4, <<"a", ".", "a">>, TypeText),
    File(5, <<"a", ".", "a">>, TypePdfx),
    File(6, <<"a", ".", "a">>, TypeXImage) }

FileIds == {f.id : f \in Files}

\* whether new Image() can decode the data URL read from file id (a PDF is
\* not an image), and the image's natural size
Decodes(id) == id \in {1, 2}
NaturalWidth(id) == IF id = 1 THEN 100 ELSE 200
NaturalHeight(id) == IF id = 1 THEN 50 ELSE 100

\* String.prototype.startsWith
StartsWith(s, prefix) ==
    Len(s) >= Len(prefix) /\ SubSeq(s, 1, Len(prefix)) = prefix

\* FileAccepted with the type test written includes('image/')
FileAcceptedIncludes(f) ==
    /\ f # NoFile
    /\ \/ \E i \in 1..Len(f.type) : StartsWith(SubSeq(f.type, i, Len(f.type)), TypeImage)
       \/ f.type = TypePdf

\* the condition of handleFile's if
FileAccepted(f) ==
    f # NoFile /\ (StartsWith(f.type, TypeImage) \/ f.type = TypePdf)

-----------------------------------------------------------------------------
(* Export composer: the body of image.onload *)

\* ToNumber of a JSON scalar, as the / operator applies it
ToNumber(val) ==
    IF val.t = "num" THEN Num(val.n)
    ELSE IF val.t = "null" THEN Num(0)
    ELSE IF val.t = "str" /\ \A i \in 1..Len(val.s) : val.s[i] = " " THEN Num(0)
    ELSE NaN

\* percentage * reference: the division by 100 left out
ToPixelsWholeFactor(percentage, reference) ==
    LET p == ToNumber(percentage)
    IN IF p.nan THEN NaN ELSE Num(100 * p.v * reference)

\* (percentage / 100) * reference, in centipixels
ToPixels(percentage, reference) ==
    LET p == ToNumber(percentage)
    IN IF p.nan THEN NaN ELSE Num(p.v * reference)

\* the four conversions of one block: x and width against the canvas width,
\* y and height against the canvas height
PixelBox(boundingBox, cw, ch) ==
    [x |-> ToPixels(boundingBox.x, cw),
     y |-> ToPixels(boundingBox.y, ch),
     width |-> ToPixels(boundingBox.width, cw),
     height |-> ToPixels(boundingBox.height, ch)]

\* the forEach over translationBlocks from block i on; an exception thrown by
\* drawTextAndFit leaves the loop and the handler
RECURSIVE DrawBlocks(_, _, _, _)
DrawBlocks(blocks, i, cw, ch) ==
    IF i > Len(blocks) THEN [threw |-> FALSE, ops |-> <<>>]
    ELSE LET boundingBox == blocks[i].boundingBox
             translatedText == blocks[i].translatedText
             pixels == PixelBox(boundingBox, cw, ch)
             x == pixels.x
             y == pixels.y
             width == pixels.width
             height == pixels.height
         IN IF JsLess(width, Num(100)) \/ JsLess(height, Num(100))
            THEN DrawBlocks(blocks, i + 1, cw, ch)
            ELSE LET fit == drawTextAndFit(translatedText, x, y, width, height)
                     mine == <<Op("fillRect", <<>>, x, y, width, height),
                               Op("drawTextAndFit", translatedText.s, x, y, width, height)>>
                             \o fit.ops
                     rest == DrawBlocks(blocks, i + 1, cw, ch)
                 IN IF fit.threw THEN [threw |-> TRUE, ops |-> mine]
                    ELSE [threw |-> rest.threw, ops |-> mine \o rest.ops]

\* String.prototype.lastIndexOf('.'), 0-based, -1 when there is none
RECURSIVE LastIndexOfDot(_, _)
LastIndexOfDot(name, i) ==
    IF i = 0 THEN -1
    ELSE IF name[i] = "." THEN i - 1
    ELSE LastIndexOfDot(name, i - 1)

Clamp(n, len) == IF n < 0 THEN 0 ELSE IF n > len THEN len ELSE n

\* String.prototype.substring(start, end)
Substring(s, start, end) ==
    LET a == Clamp(start, Len(s))
        b == Clamp(end, Len(s))
    IN IF a <= b THEN SubSeq(s, a + 1, b) ELSE SubSeq(s, b + 1, a)

Suffix == <<"-", "t", "r", "a", "n", "s", "l", "a", "t", "e", "d", ".", "p", "n", "g">>

\* link.download for file.name
DownloadName(name) ==
    LET fileName_ == Substring(name, 0, LastIndexOfDot(name, Len(name)))
    IN fileName_ \o Suffix

-----------------------------------------------------------------------------
(* The application: FileUpload and App *)

NULL == "null"
NoOutcome == Outcome("none", ParsedNot("null"))

\* the number of reads in flight
RECURSIVE SumReads(_)
SumReads(S) ==
    IF S = {} THEN 0
    ELSE LET i == CHOOSE j \in S : TRUE IN readers[i] + SumReads(S \ {i})

TotalReads == SumReads(FileIds)

Remove(seq, i) == SubSeq(seq, 1, i - 1) \o SubSeq(seq, i + 1, Len(seq))

AppInit ==
    /\ fileName = <<>>
    /\ file = NoFile
    /\ fileDataURL = 0
    /\ translationResult = NoResult
    /\ isLoading = FALSE
    /\ isDownloading = FALSE
    /\ error = NULL
    /\ readers = [i \in FileIds |-> 0]
    /\ requests = <<>>
    /\ exports = <<>>
    /\ alerts = 0
    /\ downloads = <<>>
    /\ lastEvent = "init"
    /\ lastResp = NoOutcome
    /\ lastFile = NoFile
    /\ resultFile = NoFile

\* App.handleFileSelect(selectedFile)
handleFileSelect(selectedFile) ==
    /\ file' = selectedFile
    /\ translationResult' = NoResult
    /\ resultFile' = NoFile
    /\ error' = NULL
    /\ readers' = [readers EXCEPT ![selectedFile.id] = @ + 1]

\* FileUpload.handleFile(f), reached from onFileChange and onDrop
handleFile(f) ==
    /\ lastEvent' = "handleFile"
    /\ lastFile' = f
    /\ lastResp' = NoOutcome
    /\ IF FileAccepted(f)
       THEN /\ TotalReads < MaxReads
            /\ fileName' = f.name
            /\ handleFileSelect(f)
            /\ UNCHANGED alerts
       ELSE /\ alerts < MaxAlerts
            /\ alerts' = alerts + 1
            /\ UNCHANGED <<fileName, file, translationResult, resultFile, error,
                           readers>>
    /\ UNCHANGED <<fileDataURL, isLoading, isDownloading, requests, exports,
                   downloads>>

\* reader.onload of the read started for file id
readerOnload(id) ==
    /\ readers[id] > 0
    /\ readers' = [readers EXCEPT ![id] = @ - 1]
    /\ fileDataURL' = id
    /\ lastEvent' = "readerOnload"
    /\ lastResp' = NoOutcome
    /\ lastFile' = NoFile
    /\ UNCHANGED <<fileName, file, translationResult, resultFile, isLoading,
                   isDownloading, error, requests, exports, alerts, downloads>>

\* TranslateEnabled without the isLoading test
TranslateEnabledWhileLoading == file # NoFile /\ ~isDownloading

\* the Translate button is enabled
TranslateEnabled == file # NoFile /\ ~isLoading /\ ~isDownloading

\* the Download button is enabled
DownloadEnabled == translationResult.present /\ ~isLoading /\ ~isDownloading

MsgSelectFile == "Please select a file first."

\* a click on Translate: handleTranslate up to its await
handleTranslate ==
    /\ TranslateEnabled
    /\ lastEvent' = "handleTranslate"
    /\ lastResp' = NoOutcome
    /\ lastFile' = NoFile
    /\ IF file = NoFile \/ fileDataURL = 0
       THEN /\ error' = MsgSelectFile
            /\ UNCHANGED <<isLoading, translationResult, resultFile, requests>>
       ELSE /\ isLoading' = TRUE
            /\ error' = NULL
            /\ translationResult' = NoResult
            /\ resultFile' = NoFile
            /\ requests' = Append(requests,
                                  [data |-> fileDataURL, mimeType |-> file.type,
                                   file |-> file])
    /\ UNCHANGED <<fileName, file, fileDataURL, isDownloading, readers, exports,
                   alerts, downloads>>

\* the rest of handleTranslate, once request i has settled with outcome
translateSettled(i, outcome) ==
    /\ i \in 1..Len(requests)
    /\ LET r == translateImageContent(outcome)
       IN IF r.ok
          THEN /\ translationResult' = r.result
               /\ resultFile' = requests[i].file
               /\ UNCHANGED error
          ELSE error' = r.message /\ UNCHANGED <<translationResult, resultFile>>
    /\ isLoading' = FALSE
    /\ requests' = Remove(requests, i)
    /\ lastEvent' = "translateSettled"
    /\ lastResp' = outcome
    /\ lastFile' = NoFile
    /\ UNCHANGED <<fileName, file, fileDataURL, isDownloading, readers, exports,
                   alerts, downloads>>

\* a click on Download: handleDownload up to image.src = fileDataURL
handleDownload ==
    /\ DownloadEnabled
    /\ Len(downloads) < MaxDownloads
    /\ lastEvent' = "handleDownload"
    /\ lastResp' = NoOutcome
    /\ lastFile' = NoFile
    /\ IF fileDataURL = 0 \/ ~translationResult.present \/ file = NoFile
       THEN UNCHANGED <<isDownloading, exports>>
       ELSE /\ isDownloading' = TRUE
            /\ exports' = Append(exports, [fileDataURL |-> fileDataURL,
                                           translationResult |-> translationResult,
                                           file |-> file])
    /\ UNCHANGED <<fileName, file, fileDataURL, translationResult, resultFile,
                   isLoading, error, readers, requests, alerts, downloads>>

MsgNoContext == "Could not create image context for download."
MsgNoImage == "Could not load the image to generate the download."

\* image.onload of export i; hasContext is whether getContext('2d') gave one
imageOnload(i, hasContext) ==
    /\ i \in 1..Len(exports)
    /\ Decodes(exports[i].fileDataURL)
    /\ exports' = Remove(exports, i)
    /\ lastResp' = NoOutcome
    /\ lastFile' = NoFile
    /\ IF ~hasContext
       THEN /\ error' = MsgNoContext
            /\ isDownloading' = FALSE
            /\ lastEvent' = "imageOnloadNoContext"
            /\ UNCHANGED downloads
       ELSE LET e == exports[i]
                drawn == DrawBlocks(e.translationResult.translationBlocks, 1,
                                    NaturalWidth(e.fileDataURL),
                                    NaturalHeight(e.fileDataURL))
            IN IF drawn.threw
               THEN /\ lastEvent' = "imageOnloadThrew"
                    /\ UNCHANGED <<downloads, isDownloading, error>>
               ELSE /\ lastEvent' = "imageOnload"
                    /\ downloads' = Append(downloads,
                           [file |-> e.file, download |-> DownloadName(e.file.name)])
                    /\ isDownloading' = FALSE
                    /\ UNCHANGED error
    /\ UNCHANGED <<fileName, file, fileDataURL, translationResult, resultFile,
                   isLoading, readers, requests, alerts>>

\* imageOnerror without its setError call
imageOnerrorSilent(i) ==
    /\ i \in 1..Len(exports)
    /\ ~Decodes(exports[i].fileDataURL)
    /\ exports' = Remove(exports, i)
    /\ isDownloading' = FALSE
    /\ lastEvent' = "imageOnerror"
    /\ lastResp' = NoOutcome
    /\ lastFile' = NoFile
    /\ UNCHANGED <<fileName, file, fileDataURL, translationResult, resultFile,
                   isLoading, error, readers, requests, alerts, downloads>>

\* image.onerror of export i
imageOnerror(i) ==
    /\ i \in 1..Len(exports)
    /\ ~Decodes(exports[i].fileDataURL)
    /\ exports' = Remove(exports, i)
    /\ error' = MsgNoImage
    /\ isDownloading' = FALSE
    /\ lastEvent' = "imageOnerror"
    /\ lastResp' = NoOutcome
    /\ lastFile' = NoFile
    /\ UNCHANGED <<fileName, file, fileDataURL, translationResult, resultFile,
                   isLoading,
                   readers, requests, alerts, downloads>>

-----------------------------------------------------------------------------
(* What the AI boundary may answer *)

TextA == <<"a", " ", "a">>
BoxNormal == BoxObj(NumVal(10), NumVal(10), NumVal(30), NumVal(40))

ItNormal == Item("obj", Str(<<"a">>), Str(TextA), BoxNormal)
ItDegenerate == Item("obj", Str(<<"a">>), Str(TextA),
                     BoxObj(NumVal(50), NumVal(50), NumVal(0), NumVal(40)))
ItTextWidth == Item("obj", Str(<<"a">>), Str(TextA),
                    BoxObj(NumVal(10), NumVal(10), Str(<<"a">>), NumVal(40)))
ItNumberText == Item("obj", Str(<<"a">>), NumVal(42), BoxNormal)

\* items with a member missing or of the wrong kind
ItemsBroken == {
    ItemNot("null"), ItemNot("num"),
    Item("obj", Absent, Str(TextA), BoxNormal),
    Item("obj", Str(<<"a">>), Absent, BoxNormal),
    Item("obj", Str(<<"a">>), Str(TextA), BoxNot("absent")),
    Item("obj", Str(<<"a">>), Str(TextA), BoxNot("null")),
    Item("obj", Str(<<"a">>), Str(TextA), BoxNot("num")),
    Item("obj", Str(<<"a">>), Str(TextA),
         BoxObj(Absent, NumVal(10), NumVal(30), NumVal(40))),
    Item("obj", Str(<<"a">>), Str(TextA),
         BoxObj(NumVal(10), Absent, NumVal(30), NumVal(40))),
    Item("obj", Str(<<"a">>), Str(TextA),
         BoxObj(NumVal(10), NumVal(10), Absent, NumVal(40))),
    Item("obj", Str(<<"a">>), Str(TextA),
         BoxObj(NumVal(10), NumVal(10), NumVal(30), Absent)) }

\* items whose boundingBox has all four members, one of them a string
ItemsTextInBox == {
    Item("obj", Str(<<"a">>), Str(TextA),
         BoxObj(Str(<<"a">>), NumVal(10), NumVal(30), NumVal(40))),
    Item("obj", Str(<<"a">>), Str(TextA),
         BoxObj(NumVal(10), Str(<<"a">>), NumVal(30), NumVal(40))),
    ItTextWidth,
    Item("obj", Str(<<"a">>), Str(TextA),
         BoxObj(NumVal(10), NumVal(10), NumVal(30), Str(<<"a">>))) }

RECURSIVE SeqsUpTo(_, _)
SeqsUpTo(S, n) ==
    IF n = 0 THEN {<<>>}
    ELSE LET shorter == SeqsUpTo(S, n - 1)
         IN shorter \cup {Append(q, e) : q \in {t \in shorter : Len(t) = n - 1},
                                          e \in S}

FormattedA == <<"a", "\\", "n", "a">>

\* the outcomes of one request whose translationBlocks, when an array, is
\* one of BlockLists
OutcomesOver(BlockLists) ==
    {Outcome("rejectError", ParsedNot("null")),
     Outcome("rejectOther", ParsedNot("null")),
     Outcome("syntaxError", ParsedNot("null"))}
    \cup {Outcome("json", ParsedNot(t)) : t \in {"null", "num", "str", "arr", "obj"}}
    \cup {Outcome("json", Parsed("obj", BlocksNot(t), Str(FormattedA))) :
             t \in {"null", "str", "obj"}}
    \cup {Outcome("json", Parsed("obj", BlocksArr(items), f)) :
             items \in BlockLists, f \in {Absent, NumVal(1), Str(FormattedA)}}

\* the application is run on answers of at most one block
AppOutcomes ==
    OutcomesOver({<<>>, <<ItNormal>>, <<ItTextWidth>>, <<ItNumberText>>,
                  <<Item("obj", Str(<<"a">>), Absent, BoxNormal)>>})

ValOutcomes ==
    OutcomesOver(SeqsUpTo({ItNormal, ItDegenerate, ItNumberText}
                          \cup ItemsBroken \cup ItemsTextInBox, MaxBlocks))

-----------------------------------------------------------------------------
(* Specifications *)

FitIdle ==
    /\ fitText = <<>>
    /\ fitBox = [x |-> 0, y |-> 0, width |-> 0, height |-> 0]
    /\ fitPc = "idle"
    /\ fitOut = FitResult(0, FALSE, FALSE, <<>>)

ExpIdle ==
    /\ expBlocks = <<>>
    /\ expImage = 0
    /\ expPc = "idle"
    /\ expOut = [threw |-> FALSE, ops |-> <<>>]

ValIdle ==
    /\ valIn = NoOutcome
    /\ valPc = "idle"
    /\ valOut = Thrown("")

AppIdle ==
    /\ AppInit

GeoIdle ==
    /\ geoBox = [x |-> 0, y |-> 0, width |-> 0, height |-> 0]
    /\ geoRef = [width |-> 0, height |-> 0]
    /\ geoPc = "idle"
    /\ geoOut = [x |-> Num(0), y |-> Num(0), width |-> Num(0), height |-> Num(0)]

\* useState<PopoverState | null>(null)
NoPopover ==
    [shown |-> FALSE,
     block |-> [x |-> 0, y |-> 0, width |-> 0, height |-> 0],
     style |-> [left |-> 0, top |-> 0, transform |-> ""]]

PopIdle ==
    /\ popBlocks = <<>>
    /\ hoveredBlock = NoPopover
    /\ popEvent = [handler |-> "none", index |-> 0]

WrapIdle ==
    /\ wrapText = <<>>
    /\ wrapMaxWidth = 0
    /\ wrapFont = 0
    /\ wrapPc = "idle"
    /\ wrapOut = [threw |-> FALSE, lines |-> <<>>]

AuxIdle ==
    /\ GeoIdle
    /\ PopIdle
    /\ WrapIdle

\* the application
Init == AppInit /\ FitIdle /\ ExpIdle /\ ValIdle /\ AuxIdle

Next ==
    \/ \E f \in Files \cup {NoFile} : handleFile(f) /\ UNCHANGED <<fitVars, expVars, valVars, auxVars>>
    \/ \E id \in FileIds : readerOnload(id) /\ UNCHANGED <<fitVars, expVars, valVars, auxVars>>
    \/ handleTranslate /\ UNCHANGED <<fitVars, expVars, valVars, auxVars>>
    \/ \E i \in 1..Len(requests), o \in AppOutcomes :
          translateSettled(i, o) /\ UNCHANGED <<fitVars, expVars, valVars, auxVars>>
    \/ handleDownload /\ UNCHANGED <<fitVars, expVars, valVars, auxVars>>
    \/ \E i \in 1..Len(exports), c \in BOOLEAN :
          imageOnload(i, c) /\ UNCHANGED <<fitVars, expVars, valVars, auxVars>>
    \/ \E i \in 1..Len(exports) : imageOnerror(i) /\ UNCHANGED <<fitVars, expVars, valVars, auxVars>>

Spec == Init /\ [][Next]_vars

\* the text fitting engine alone
InitFit == AppIdle /\ FitInit /\ ExpIdle /\ ValIdle /\ AuxIdle
NextFit == FitDraw /\ UNCHANGED <<appVars, expVars, valVars, auxVars>>
SpecFit == InitFit /\ [][NextFit]_vars

\* the response validation alone
ValInit ==
    /\ valIn \in ValOutcomes
    /\ valPc = "ready"
    /\ valOut = Thrown("")

Validate ==
    /\ valPc = "ready"
    /\ valOut' = translateImageContent(valIn)
    /\ valPc' = "done"
    /\ UNCHANGED valIn

InitVal == AppIdle /\ FitIdle /\ ExpIdle /\ ValInit /\ AuxIdle
NextVal == Validate /\ UNCHANGED <<appVars, fitVars, expVars, auxVars>>
SpecVal == InitVal /\ [][NextVal]_vars


\* the export composer alone: the blocks of an accepted answer and an image
ItShort == Item("obj", Str(<<"a">>), Str(TextA),
                BoxObj(NumVal(10), NumVal(10), NumVal(30), NumVal(0)))
ItLow == Item("obj", Str(<<"a">>), Str(TextA),
              BoxObj(NumVal(20), NumVal(60), NumVal(10), NumVal(10)))
ExportItems == {ItNormal, ItDegenerate, ItShort, ItLow, ItTextWidth, ItNumberText}

ExpInit ==
    /\ expBlocks \in SeqsUpTo(ExportItems, MaxBlocks)
    /\ expImage \in {1, 2}
    /\ expPc = "ready"
    /\ expOut = [threw |-> FALSE, ops |-> <<>>]

ExportDraw ==
    /\ expPc = "ready"
    /\ expOut' = DrawBlocks(expBlocks, 1, NaturalWidth(expImage),
                            NaturalHeight(expImage))
    /\ expPc' = "done"
    /\ UNCHANGED <<expBlocks, expImage>>

InitExport == AppIdle /\ FitIdle /\ ExpInit /\ ValIdle /\ AuxIdle
NextExport == ExportDraw /\ UNCHANGED <<appVars, fitVars, valVars, auxVars>>
SpecExport == InitExport /\ [][NextExport]_vars


\* the percentage-to-pixel conversion alone: a percentage box and the natural
\* size of an image
Pcts == {10 * k : k \in -1..MaxPct}
GeoRefs == {[width |-> 1000, height |-> 500], [width |-> 100, height |-> 50],
            [width |-> 1, height |-> 1]}

GeoInit ==
    /\ geoBox \in [x : Pcts, y : Pcts, width : Pcts, height : Pcts]
    /\ geoRef \in GeoRefs
    /\ geoPc = "ready"
    /\ geoOut = [x |-> Num(0), y |-> Num(0), width |-> Num(0), height |-> Num(0)]

GeoConvert ==
    /\ geoPc = "ready"
    /\ geoOut' = PixelBox(BoxObj(NumVal(geoBox.x), NumVal(geoBox.y),
                                 NumVal(geoBox.width), NumVal(geoBox.height)),
                          geoRef.width, geoRef.height)
    /\ geoPc' = "converted"
    /\ UNCHANGED <<geoBox, geoRef>>

InitGeo == AppIdle /\ FitIdle /\ ExpIdle /\ ValIdle /\ GeoInit /\ PopIdle /\ WrapIdle
NextGeo == GeoConvert /\ UNCHANGED <<appVars, fitVars, expVars, valVars, popVars, wrapVars>>
SpecGeo == InitGeo /\ [][NextGeo]_vars


\* the overlay's popover alone: two blocks on screen and the pointer moving
\* over them
PopoverThreshold == 70
TransformBelow == "translateY(8px)"
TransformAbove == "translateY(-100%) translateY(-8px)"

\* the condition of handleMouseEnter's if, with >= for >
FlipsAboveFromThreshold(boundingBox) ==
    boundingBox.y + boundingBox.height >= PopoverThreshold

\* the condition of handleMouseEnter's if
FlipsAbove(boundingBox) ==
    boundingBox.y + boundingBox.height > PopoverThreshold

\* popoverStyle as handleMouseEnter leaves it; left and top in percent
PopoverStyle(boundingBox) ==
    IF FlipsAbove(boundingBox)
    THEN [left |-> boundingBox.x, top |-> boundingBox.y,
          transform |-> TransformAbove]
    ELSE [left |-> boundingBox.x,
          top |-> boundingBox.y + boundingBox.height,
          transform |-> TransformBelow]

PopTops == {p \in Pcts : p >= 0}
PopHeights == {p \in Pcts : 0 <= p /\ p <= 30}
PopBoxes == [x : {10}, y : PopTops, width : {30}, height : PopHeights]

PopInit ==
    /\ popBlocks \in [1..2 -> PopBoxes]
    /\ hoveredBlock = NoPopover
    /\ popEvent = [handler |-> "none", index |-> 0]

\* onMouseEnter of the region of block i
handleMouseEnter(i) ==
    /\ hoveredBlock' = [shown |-> TRUE, block |-> popBlocks[i],
                        style |-> PopoverStyle(popBlocks[i])]
    /\ popEvent' = [handler |-> "handleMouseEnter", index |-> i]
    /\ UNCHANGED popBlocks

\* onMouseLeave of the region of block i
handleMouseLeave(i) ==
    /\ hoveredBlock' = NoPopover
    /\ popEvent' = [handler |-> "handleMouseLeave", index |-> i]
    /\ UNCHANGED popBlocks

InitPop == AppIdle /\ FitIdle /\ ExpIdle /\ ValIdle /\ GeoIdle /\ PopInit /\ WrapIdle
NextPop ==
    \/ \E i \in 1..Len(popBlocks) :
          handleMouseEnter(i)
            /\ UNCHANGED <<appVars, fitVars, expVars, valVars, geoVars, wrapVars>>
    \/ \E i \in 1..Len(popBlocks) :
          handleMouseLeave(i)
            /\ UNCHANGED <<appVars, fitVars, expVars, valVars, geoVars, wrapVars>>
SpecPop == InitPop /\ [][NextPop]_vars


\* the greedy wrap alone: a text, a max width in pixels and the font size
\* ctx.font holds
WrapFonts == {8, 10}

WrapInit ==
    /\ wrapText \in StringsUpTo(MaxWrapLen)
    /\ wrapMaxWidth \in -1..MaxWrapWidth
    /\ wrapFont \in WrapFonts
    /\ wrapPc = "ready"
    /\ wrapOut = [threw |-> FALSE, lines |-> <<>>]

WrapCall ==
    /\ wrapPc = "ready"
    /\ wrapOut' = getWrappedLines(Str(wrapText), Num(100 * wrapMaxWidth), wrapFont)
    /\ wrapPc' = "wrapped"
    /\ UNCHANGED <<wrapText, wrapMaxWidth, wrapFont>>

InitWrap == AppIdle /\ FitIdle /\ ExpIdle /\ ValIdle /\ GeoIdle /\ PopIdle /\ WrapInit
NextWrap == WrapCall /\ UNCHANGED <<appVars, fitVars, expVars, valVars, geoVars, popVars>>
SpecWrap == InitWrap /\ [][NextWrap]_vars

-----------------------------------------------------------------------------
(* Properties *)

\* a block as the response contract wants it: both texts present and a
\* boundingBox whose x, y, width and height are all present and numbers
BlockWellFormed(item) ==
    /\ item.t = "obj"
    /\ item.originalText.t # "absent"
    /\ item.translatedText.t # "absent"
    /\ item.boundingBox.t = "obj"
    /\ \A v \in {item.boundingBox.x, item.boundingBox.y,
                 item.boundingBox.width, item.boundingBox.height} : v.t = "num"

\* a parsed response the contract wants rejected
MustBeRejected(parsed) ==
    \/ parsed.translationBlocks.t # "arr"
    \/ parsed.formattedTranslation.t # "str"
    \/ \E i \in 1..Len(parsed.translationBlocks.items) :
          ~BlockWellFormed(parsed.translationBlocks.items[i])

\* C1: translateImageContent throws, and returns no result, on every parsed
\* response whose translationBlocks is not an array, whose formattedTranslation
\* is not a string, or one of whose blocks lacks originalText, translatedText
\* or a boundingBox with four numeric members.
C1_MalformedRejected ==
    (valPc = "done" /\ valIn.kind = "json" /\ MustBeRejected(valIn.parsed))
        => (~valOut.ok /\ valOut.result = NoResult)

\* C2: once handleTranslate has finished on a failed call or on a malformed
\* or non-object response, error holds a non-empty message and
\* translationResult is null.
C2_FailureSurfaced ==
    (lastEvent = "translateSettled"
        /\ (lastResp.kind # "json" \/ MustBeRejected(lastResp.parsed)))
        => (error # NULL /\ error # "" /\ translationResult = NoResult)

\* C3: handleFile on a file whose type neither starts with image/ nor is
\* application/pdf, or on no file, shows a notice and leaves fileName, file,
\* fileDataURL, translationResult and error alone, starts no read and issues
\* no request; a file is taken only with such a type.
C3_RejectedFileChangesNothing ==
    [][lastEvent' = "handleFile" =>
          IF lastFile'.type \in {TypePng, TypeImage, TypePdf}
          THEN alerts' = alerts /\ file' = lastFile' /\ fileName' = lastFile'.name
          ELSE /\ alerts' = alerts + 1
               /\ UNCHANGED <<fileName, file, fileDataURL, translationResult,
                              error, readers, requests>>]_vars

C3_Witness ==
    /\ lastEvent = "handleFile"
    /\ lastFile.type = TypeText
    /\ translationResult.present
    /\ alerts = 1

\* C4: at most one gated operation is in progress: never two AI requests,
\* never two exports, never a request together with an export.
C4_OneGatedOperation == Len(requests) + Len(exports) <= 1

C4_Witness ==
    /\ Len(requests) = 1
    /\ lastEvent = "handleFile"
    /\ file.id # requests[1].data
    /\ Len(downloads) = 1

\* C5: when an AI request has settled isLoading is false, and when an
\* export's image load has finished (drawn, decode error or no drawing
\* context) isDownloading is false.
C5_FlagsCleared ==
    /\ lastEvent = "translateSettled" => ~isLoading
    /\ lastEvent \in {"imageOnload", "imageOnloadThrew", "imageOnloadNoContext",
                      "imageOnerror"} => ~isDownloading

\* C6: an export whose image cannot be loaded, or that gets no 2D context,
\* triggers no download, sets an error message and leaves translationResult,
\* file and fileDataURL alone.
C6_ExportAborted ==
    [][(lastEvent' \in {"imageOnerror", "imageOnloadNoContext"}
            /\ Len(exports') < Len(exports)) =>
          /\ downloads' = downloads
          /\ error' # NULL /\ error' # ""
          /\ UNCHANGED <<translationResult, file, fileDataURL>>]_vars

C6_Witness ==
    /\ lastEvent = "imageOnerror"
    /\ error = MsgNoImage
    /\ translationResult.present
    /\ downloads = <<>>

\* the name without its last extension; the whole name when it has no '.'
RECURSIVE Stem(_)
Stem(name) ==
    IF \A i \in 1..Len(name) : name[i] # "." THEN name
    ELSE IF name[Len(name)] = "." THEN SubSeq(name, 1, Len(name) - 1)
    ELSE Stem(SubSeq(name, 1, Len(name) - 1))

\* C7: every export is named by the original file name without its extension
\* followed by -translated.png, the stem of a name without '.' being the name.
C7_ExportName ==
    \A i \in 1..Len(downloads) :
        downloads[i].download = Stem(downloads[i].file.name) \o Suffix


C7_Witness ==
    \E i \in 1..Len(downloads) :
        downloads[i].file.name = <<"a", ".", "a">> /\ downloads[i].download = <<"a">> \o Suffix

\* the number of lines of the greedy wrap of the text at width - 4, font f
LinesAt(f) ==
    Len(getWrappedLines(Str(fitText), Num(fitBox.width - 400), f).lines)

\* the font sizes of 8..floor(height / 2) at which the wrapped text is not
\* taller than the box: lines * 1.2 * f <= height
FittingSizes ==
    {f \in 8..(fitBox.height \div 200) : 120 * LinesAt(f) * f <= fitBox.height}

Largest(S) == CHOOSE m \in S : \A n \in S : n <= m

\* the lines the fillText calls among ops draw, and their font sizes
TextsDrawn(ops) == SelectSeq(ops, LAMBDA o : o.op = "fillText")

\* C8: drawTextAndFit draws at the largest font size of 8..floor(height / 2)
\* at which the wrapped text fits the height, unclipped; when there is none it
\* draws at 8 inside a clip of the box rectangle; it never throws.
C8_LargestFittingSize ==
    fitPc = "drawn" =>
        /\ ~fitOut.threw
        /\ LET texts == TextsDrawn(fitOut.ops)
           IN /\ Len(texts) = LinesAt(fitOut.font)
              /\ \A i \in 1..Len(texts) : texts[i].c = Num(fitOut.font)
        /\ IF FittingSizes # {}
           THEN /\ fitOut.font = Largest(FittingSizes)
                /\ ~fitOut.clipped
                /\ \A i \in 1..Len(fitOut.ops) : fitOut.ops[i].op = "fillText"
           ELSE /\ fitOut.font = 8
                /\ fitOut.clipped
                /\ Len(fitOut.ops) >= 3
                /\ fitOut.ops[1].op = "save"
                /\ fitOut.ops[2] = Op("clip", <<>>, Num(fitBox.x), Num(fitBox.y),
                                      Num(fitBox.width), Num(fitBox.height))
                /\ fitOut.ops[Len(fitOut.ops)].op = "restore"
                /\ \A i \in 3..(Len(fitOut.ops) - 1) : fitOut.ops[i].op = "fillText"

C8_Witness ==
    /\ fitPc = "drawn"
    /\ fitOut.font > 8
    /\ fitOut.font < fitBox.height \div 200
    /\ Len(fitOut.ops) = 2

\* the font size drawTextAndFit chooses for the text and width at height h px
FontAt(h) ==
    drawTextAndFit(Str(fitText), Num(fitBox.x), Num(fitBox.y), Num(fitBox.width),
                   Num(100 * h)).font

\* C9: for a fixed text and width the font size chosen (8 for the fallback)
\* for a height is at most the font size chosen for any greater height.
C9_MonotonicShrink ==
    fitPc = "drawn" =>
        \A h \in 1..(fitBox.height \div 100) : FontAt(h) <= fitOut.font

C9_Witness ==
    /\ fitPc = "drawn"
    /\ fitOut.font > 8
    /\ \E h \in 1..(fitBox.height \div 100) : FontAt(h) > 8 /\ FontAt(h) < fitOut.font

\* the fill and text-fit calls C10 expects from block i on
RECURSIVE ExpectedCalls(_, _, _, _)
ExpectedCalls(blocks, i, cw, ch) ==
    IF i > Len(blocks) THEN <<>>
    ELSE LET b == blocks[i].boundingBox
             x == ToPixels(b.x, cw)
             y == ToPixels(b.y, ch)
             width == ToPixels(b.width, cw)
             height == ToPixels(b.height, ch)
         IN (IF JsGeq(width, Num(100)) /\ JsGeq(height, Num(100))
             THEN <<Op("fillRect", <<>>, x, y, width, height),
                    Op("drawTextAndFit", blocks[i].translatedText.s, x, y, width, height)>>
             ELSE <<>>)
            \o ExpectedCalls(blocks, i + 1, cw, ch)

\* C10: the export makes, in array order, exactly one background fill followed
\* by one text-fit draw for each block whose pixel width and height are both
\* at least 1, nothing for the other blocks, and no error.
C10_DrawnBlocks ==
    expPc = "done" =>
        /\ ~expOut.threw
        /\ SelectSeq(expOut.ops, LAMBDA o : o.op \in {"fillRect", "drawTextAndFit"})
             = ExpectedCalls(expBlocks, 1, NaturalWidth(expImage), NaturalHeight(expImage))

\* pixel values of the converted box, in centipixels
PixelsAsComputed ==
    /\ geoOut.x = Num(geoBox.x * geoRef.width)
    /\ geoOut.y = Num(geoBox.y * geoRef.height)
    /\ geoOut.width = Num(geoBox.width * geoRef.width)
    /\ geoOut.height = Num(geoBox.height * geoRef.height)

\* every pixel value lies between 0 and its reference dimension
PixelsInRange ==
    /\ 0 <= geoOut.x.v /\ geoOut.x.v <= 100 * geoRef.width
    /\ 0 <= geoOut.width.v /\ geoOut.width.v <= 100 * geoRef.width
    /\ 0 <= geoOut.y.v /\ geoOut.y.v <= 100 * geoRef.height
    /\ 0 <= geoOut.height.v /\ geoOut.height.v <= 100 * geoRef.height

\* the box of the example: 10, 10, 30, 10 against 1000 x 500 gives the origin
\* (100, 50) and the size (300, 50)
ExampleAsStated ==
    (geoBox = [x |-> 10, y |-> 10, width |-> 30, height |-> 10]
       /\ geoRef = [width |-> 1000, height |-> 500])
    => geoOut = [x |-> Num(10000), y |-> Num(5000),
                 width |-> Num(30000), height |-> Num(5000)]

\* the box starts inside the image and ends inside it
BoxEndsInside ==
    /\ 0 <= geoBox.x /\ 0 <= geoBox.y
    /\ geoBox.x + geoBox.width <= 100
    /\ geoBox.y + geoBox.height <= 100

\* C11 as stated: every pixel value is (percentage / 100) * reference, and for
\* every box with 0 <= x, 0 <= y, x + width <= 100 and y + height <= 100 every
\* pixel value lies within 0 and its reference dimension.
C11_AsStated ==
    geoPc = "converted" =>
        /\ PixelsAsComputed
        /\ ExampleAsStated
        /\ BoxEndsInside => PixelsInRange

\* C11 amended: every pixel value is (percentage / 100) * reference, and for
\* every box with 0 <= x, 0 <= y, 0 <= width, 0 <= height, x + width <= 100
\* and y + height <= 100 every pixel value lies within 0 and its reference
\* dimension; 10, 10, 30, 10 against 1000 x 500 gives (100, 50), (300, 50).
C11_PixelsInRange ==
    geoPc = "converted" =>
        /\ PixelsAsComputed
        /\ ExampleAsStated
        /\ (BoxEndsInside /\ 0 <= geoBox.width /\ 0 <= geoBox.height)
              => PixelsInRange

C11_Witness ==
    /\ geoPc = "converted"
    /\ geoBox = [x |-> 10, y |-> 10, width |-> 30, height |-> 10]
    /\ geoRef = [width |-> 1000, height |-> 500]
    /\ geoOut.x = Num(10000) /\ geoOut.height = Num(5000)

LinesCentredHorizontally ==
    LET texts == TextsDrawn(fitOut.ops)
    IN \A i \in 1..Len(texts) :
          texts[i].a = Num(2 * fitBox.x + fitBox.width
                           - MeasureText(texts[i].line, fitOut.font).v)

\* line i (counted from 0) is drawn at startY + i * lineHeight, with
\* startY = y + (height - numberOfLines * lineHeight) / 2; compared doubled
LinesCentredVertically ==
    LET texts == TextsDrawn(fitOut.ops)
        lineHeight == 120 * fitOut.font
    IN \A i \in 1..Len(texts) :
          2 * texts[i].b.v = 2 * fitBox.y + (fitBox.height - Len(texts) * lineHeight)
                             + 2 * (i - 1) * lineHeight

\* C13: the lines drawTextAndFit draws, at the accepted size or in the
\* fallback, are centred in the box: line i at the vertical position
\* startY + i * lineHeight with startY = y + (height - lines * lineHeight) / 2
\* and at the horizontal position x + (width - lineWidth) / 2.
C13_CentredLayout ==
    fitPc = "drawn" => LinesCentredHorizontally /\ LinesCentredVertically

\* words joined by single spaces
RECURSIVE Join(_)
Join(words) ==
    IF Len(words) = 0 THEN <<>>
    ELSE IF Len(words) = 1 THEN words[1]
    ELSE words[1] \o <<" ">> \o Join(Tail(words))

\* lines k.. are the joins of successive runs of words i.., in order, and a
\* word that is in no run is empty (split(' ') gives an empty word at a
\* leading, trailing or doubled space)
RECURSIVE LinesAreRuns(_, _, _, _)
LinesAreRuns(words, i, lines, k) ==
    IF k > Len(lines)
    THEN \A j \in i..Len(words) : words[j] = <<>>
    ELSE \E s \in i..Len(words) : \E e \in s..Len(words) :
            /\ \A j \in i..(s - 1) : words[j] = <<>>
            /\ lines[k] = Join(SubSeq(words, s, e))
            /\ LinesAreRuns(words, e + 1, lines, k + 1)

\* a line of several words is narrower than the max width, and a word not
\* narrower than the max width has its line for itself
LineWidthsRespected ==
    \A k \in 1..Len(wrapOut.lines) :
        LET line == wrapOut.lines[k]
            words == Split(line)
        IN /\ Len(words) > 1 =>
                 MeasureText(line, wrapFont).v < 100 * wrapMaxWidth
           /\ (\E j \in 1..Len(words) :
                   MeasureText(words[j], wrapFont).v >= 100 * wrapMaxWidth)
                 => Len(words) = 1

\* C14: getWrappedLines never splits a word: each line is the space-joined
\* sequence of consecutive whole words of the text, the lines hold the words
\* in input order, a line of more than one word is strictly narrower than the
\* max width, a word not narrower than the max width is alone on its line,
\* and the empty text yields no lines.
C14_WholeWords ==
    wrapPc = "wrapped" =>
        /\ ~wrapOut.threw
        /\ LinesAreRuns(Split(wrapText), 1, wrapOut.lines, 1)
        /\ LineWidthsRespected
        /\ wrapText = <<>> => wrapOut.lines = <<>>

\* three words wrapped into a line of two words and a line of one
C14_Witness ==
    /\ wrapPc = "wrapped"
    /\ wrapText = <<"a", " ", "a", " ", "a">>
    /\ wrapOut.lines = << <<"a", " ", "a">>, <<"a">> >>

\* C15: a translation result is never shown for a file other than the one it
\* was computed from: whenever translationResult is set, the request that
\* produced it was issued for the file selected now, whatever the order of
\* file selections and the settling of a request in flight.
C15_ResultOfSelectedFile ==
    translationResult.present => resultFile = file

\* C16: the bytes and the media type of every AI request, and the image and
\* the file name of every export, come from the same file: whenever file and
\* fileDataURL are both set and Translate or Download can be clicked,
\* fileDataURL is the data of the file selected, whatever the order of file
\* selections and FileReader completions.
C16_DataOfSelectedFile ==
    /\ (file # NoFile /\ fileDataURL # 0 /\ (TranslateEnabled \/ DownloadEnabled))
          => fileDataURL = file.id
    /\ \A i \in 1..Len(requests) : requests[i].data = requests[i].file.id
    /\ \A i \in 1..Len(exports) : exports[i].fileDataURL = exports[i].file.id
====
